---- MODULE Spec2Model ----
(***************************************************************************)
(* A model of the row-lineage and metadata-tracking layer of               *)
(* pipeline_functions.py (MetadataManager, handle_row_errors,              *)
(* manage_metadata, the transformations and build_pipeline) and of         *)
(* validation_function.py (ValidationError, validator).                    *)
(*                                                                         *)
(* Conventions.                                                            *)
(*  - A dataset (pd.DataFrame) is a sequence of rows with the default      *)
(*    RangeIndex 0..N-1; a row is a record column -> cell.                 *)
(*  - A ledger (MetadataManager) is a record [lineage, errors, logs];      *)
(*    lineage is a function whose DOMAIN is the set of keys present in the *)
(*    defaultdict.                                                         *)
(*  - A call ends in Ret(v) or Raise(e).                                   *)
(*  - uuid.uuid4() is a fresh identifier drawn from a counter: collisions  *)
(*    of 122 random bits are not modelled.                                 *)
(*  - Names that pipeline_functions.py uses without defining or importing  *)
(*    them (ValidationError, context) are resolved at call time in the     *)
(*    module's globals: module_globals is the set of those that the        *)
(*    loading environment has bound.  metadata_manager, which the module   *)
(*    needs at import time (line 114), is the ledger "G".                  *)
(***************************************************************************)
EXTENDS Integers, Sequences, FiniteSets, TLC

\* Bounds of the model.
MaxRows == 2
MaxSteps == 2
MaxCalls == 2

VARIABLES
    module_globals,   \* the free names of pipeline_functions.py that are bound
    ledger,           \* the state of each MetadataManager
    pc,               \* the state of the pipeline run
    pipeline_specs,   \* build_pipeline's list of transformations
    metadata_manager, \* build_pipeline's ledger
    data,             \* the dataset the caller passed to pipeline
    df,               \* pipeline's local df
    pos,              \* the place of the loop in pipeline_specs
    uuid_count,       \* how many identifiers uuid4 has minted
    invoked,          \* history: the transformations the run has called
    result,           \* how the call of pipeline ended
    last,             \* history: the last call, its outcome, the ledgers before it
    ncalls            \* how many direct calls were made

vars == <<module_globals, ledger, pc, pipeline_specs, metadata_manager,
          data, df, pos, uuid_count, invoked, result, last, ncalls>>

----------------------------------------------------------------------------
\* Python values and call outcomes

PyNone == [ty |-> "NoneType", val |-> 0]
PyInt(n) == [ty |-> "int", val |-> n]
PyStr(n) == [ty |-> "str", val |-> n]
\* a float, kept in hundredths
PyFloat(n) == [ty |-> "float", val |-> n]

Ret(v) == [kind |-> "return", val |-> v]
Raise(e) == [kind |-> "raise", exc |-> e]

\* An exception: its class, its message and, for ValidationError, its errors
\* dict (a sequence of <<key, message>> pairs in insertion order).
Exc(type, msg) == [type |-> type, msg |-> msg, errors |-> <<>>]

ValidationError(errors) ==
    [type |-> "ValidationError", msg |-> "Validation failed: ", errors |-> errors]

\* str(e)
Str(e) == <<e.msg, e.errors>>

NameError(name) == Exc("NameError", "name '" \o name \o "' is not defined")
KeyError(key) == Exc("KeyError", "'" \o key \o "'")

\* uuid.uuid4() as a string: the n-th identifier minted by the process
uuid4(n) == "uuid-" \o ToString(n)

\* df["row_id"]
RowIds(d) == [i \in 1..Len(d) |-> d[i].row_id]

HasColumn(d, col) == \A i \in 1..Len(d) : col \in DOMAIN d[i]

Range(s) == {s[i] : i \in 1..Len(s)}

\* the ledgers of the process: "G" is the module-level metadata_manager that
\* the decorators of lines 114, 128 and 134 close over, "L" is a
\* MetadataManager() that a caller constructs
Ledgers == {"G", "L"}

----------------------------------------------------------------------------
\* MetadataManager

MetadataManager == [lineage |-> <<>>, errors |-> <<>>, logs |-> <<>>]

\* self.lineage[row_id] of a defaultdict(list)
Entry(lineage, row_id) ==
    IF row_id \in DOMAIN lineage THEN lineage[row_id] ELSE <<>>

Put(lineage, row_id, seq) ==
    [k \in DOMAIN lineage \cup {row_id} |-> IF k = row_id THEN seq ELSE lineage[k]]

RECURSIVE ResetAll(_, _, _)
ResetAll(lineage, ids, seq) ==
    IF ids = <<>> THEN lineage
    ELSE ResetAll(Put(lineage, Head(ids), seq), Tail(ids), seq)

RECURSIVE AppendAll(_, _, _)
AppendAll(lineage, ids, transformation) ==
    IF ids = <<>> THEN lineage
    ELSE AppendAll(Put(lineage, Head(ids),
                       Append(Entry(lineage, Head(ids)), transformation)),
                   Tail(ids), transformation)

\* initialize that keeps the sequence of an identifier the ledger knows
initialize_keeping(mm, d) ==
    [mm EXCEPT !.lineage =
        [k \in DOMAIN mm.lineage \cup Range(RowIds(d)) |-> Entry(mm.lineage, k)]]

initialize(mm, d) == [mm EXCEPT !.lineage = ResetAll(@, RowIds(d), <<>>)]

\* update_lineage that replaces the sequence of every row of the dataset
update_lineage_replacing(mm, d, transformation, new_rows) ==
    [mm EXCEPT !.lineage =
        ResetAll(@, RowIds(d) \o new_rows, <<transformation>>)]

\* update_lineage that resets the new rows before it appends
update_lineage_swapped(mm, d, transformation, new_rows) ==
    [mm EXCEPT !.lineage =
        AppendAll(ResetAll(@, new_rows, <<transformation>>), RowIds(d), transformation)]

\* new_rows is a list; None and [] are both falsy and are both <<>> here
update_lineage(mm, d, transformation, new_rows) ==
    [mm EXCEPT !.lineage =
        ResetAll(AppendAll(@, RowIds(d), transformation), new_rows, <<transformation>>)]

\* log_transformation that keeps the latest record only
log_transformation_latest(mm, transformation, duration, details) ==
    [mm EXCEPT !.logs = << [transformation |-> transformation,
                            time |-> duration,
                            details |-> details] >>]

log_transformation(mm, transformation, duration, details) ==
    [mm EXCEPT !.logs = Append(@, [transformation |-> transformation,
                                   time |-> duration,
                                   details |-> details])]

log_error(mm, row_id, transformation, error) ==
    [mm EXCEPT !.errors = Append(@, [row_id |-> row_id,
                                     transformation |-> transformation,
                                     error |-> Str(error)])]

get_lineage(mm, row_id) ==
    IF row_id \in DOMAIN mm.lineage THEN mm.lineage[row_id] ELSE <<>>

\* get_lineage that reads self.lineage[row_id]: the defaultdict makes the
\* entry it is asked for
get_lineage_subscript(mm, row_id) ==
    [mm |-> [mm EXCEPT !.lineage = Put(@, row_id, Entry(@, row_id))],
     ret |-> Entry(mm.lineage, row_id)]

\* a call get_lineage(row_id): ret is what it returns and mm is the ledger
\* after it; dict.get makes no entry
get_lineage_call(mm, row_id) == [mm |-> mm, ret |-> get_lineage(mm, row_id)]

get_errors(mm) == mm.errors

get_logs(mm) == mm.logs

----------------------------------------------------------------------------
\* validation_function.py

\* errors[key] = msg of a dict: a present key keeps its place
SetItem(errors, key, msg) ==
    IF \E i \in 1..Len(errors) : errors[i][1] = key
    THEN [i \in 1..Len(errors) |->
            IF errors[i][1] = key THEN <<key, msg>> ELSE errors[i]]
    ELSE Append(errors, <<key, msg>>)

\* type(x).__name__
TypeName(v) == v.ty

\* isinstance(x, expected_type), for the classes int and str
IsInstance(v, expected_type) == v.ty = expected_type

RECURSIVE TypeValidation(_, _, _)
TypeValidation(pydata, schema, errors) ==
    IF schema = <<>> THEN errors
    ELSE LET key == Head(schema).key
             expected_type == Head(schema).type
             e1 == IF key \notin DOMAIN pydata
                   THEN SetItem(errors, key, "Missing key: " \o key)
                   ELSE IF ~IsInstance(pydata[key], expected_type)
                   THEN SetItem(errors, key, "Expected " \o expected_type
                                     \o ", got " \o TypeName(pydata[key]))
                   ELSE errors
         IN TypeValidation(pydata, Tail(schema), e1)

TypeError(msg) == Exc("TypeError", msg)

\* eval(rule["condition"], {}, {"data": data}) for the conditions of the
\* configurations of test_validation_function.py: data[key] > 0,
\* len(data[key]) > 2 and '@' in data[key]
Eval(condition, pydata) ==
    IF condition.key \notin DOMAIN pydata THEN Raise(KeyError(condition.key))
    ELSE LET v == pydata[condition.key] IN
         CASE condition.op = "gt0" ->
                IF v.ty \in {"int", "float"} THEN Ret(v.val > 0)
                ELSE Raise(TypeError("'>' not supported between instances of '"
                                     \o v.ty \o "' and 'int'"))
           [] condition.op = "len_gt2" ->
                IF v.ty = "str" THEN Ret(Len(v.val) > 2)
                ELSE Raise(TypeError("object of type '" \o v.ty \o "' has no len()"))
           [] condition.op = "contains_at" ->
                IF v.ty = "str" THEN Ret("@" \in Range(v.val))
                ELSE Raise(TypeError("argument of type '" \o v.ty
                                     \o "' is not iterable"))

RECURSIVE RuleValidation(_, _, _)
RuleValidation(pydata, rules, errors) ==
    IF rules = <<>> THEN errors
    ELSE LET rule == Head(rules)
             r == Eval(rule.condition, pydata)
             e1 == IF r.kind = "raise"
                   THEN SetItem(errors, rule.description,
                                "Rule evaluation error: " \o r.exc.msg)
                   ELSE IF ~r.val
                   THEN SetItem(errors, rule.description,
                                "Validation failed: " \o rule.condition.expr)
                   ELSE errors
         IN RuleValidation(pydata, Tail(rules), e1)

\* validator that raises on the type errors before it evaluates any rule
validator_types_first(pydata, schema, rules) ==
    LET errors == TypeValidation(pydata, schema, <<>>)
    IN IF errors # <<>> THEN Raise(ValidationError(errors))
       ELSE IF RuleValidation(pydata, rules, <<>>) # <<>>
       THEN Raise(ValidationError(RuleValidation(pydata, rules, <<>>)))
       ELSE Ret(PyNone)

validator(pydata, schema, rules) ==
    LET errors == RuleValidation(pydata, rules, TypeValidation(pydata, schema, <<>>))
    IN IF errors # <<>> THEN Raise(ValidationError(errors)) ELSE Ret(PyNone)

\* validation_config of test_validation_function.py
validation_config ==
    [schema |-> << [key |-> "age", type |-> "int"],
                   [key |-> "name", type |-> "str"],
                   [key |-> "email", type |-> "str"] >>,
     rules |-> << [description |-> "Age must be positive",
                   condition |-> [expr |-> "data['age'] > 0",
                                  op |-> "gt0", key |-> "age"]],
                  [description |-> "Name must be at least 3 characters",
                   condition |-> [expr |-> "len(data['name']) > 2",
                                  op |-> "len_gt2", key |-> "name"]],
                  [description |-> "Email must contain @",
                   condition |-> [expr |-> "'@' in data['email']",
                                  op |-> "contains_at", key |-> "email"]] >>]

\* bad_config of test_rule_exception
bad_config ==
    [schema |-> << [key |-> "age", type |-> "int"] >>,
     rules |-> << [description |-> "Invalid rule",
                   condition |-> [expr |-> "data['nonexistent'] > 0",
                                  op |-> "gt0", key |-> "nonexistent"]] >>]

\* validate = partial(validator, schema=..., rules=...)
validate(pydata) == validator(pydata, validation_config.schema, validation_config.rules)

----------------------------------------------------------------------------
\* Row-level functions and handle_row_errors

\* calculate_growth(row) of the example; the quotient is kept in hundredths
calculate_growth(row) ==
    IF "start_value" \notin DOMAIN row THEN Raise(KeyError("start_value"))
    ELSE IF row.start_value.ty \notin {"int", "float"}
    THEN Raise(TypeError("'>' not supported between instances of '"
                         \o row.start_value.ty \o "' and 'int'"))
    ELSE IF row.start_value.val > 0
    THEN IF "end_value" \notin DOMAIN row THEN Raise(KeyError("end_value"))
         ELSE Ret(PyFloat(((row.end_value.val - row.start_value.val) * 100)
                          \div row.start_value.val))
    ELSE Raise(Exc("ValueError", "Invalid start_value"))

\* the functions that are wrapped: safe_calculate_growth of the example, and
\* validate
RowFuncs == {"safe_calculate_growth", "validate"}

Call(func, row) ==
    IF func = "safe_calculate_growth" THEN calculate_growth(row) ELSE validate(row)

\* the value of the free name context, when the environment binds it
context == "context"

\* {f"{context} -> {key}": msg for key, msg in e.errors.items()}
error_with_context(errors) ==
    [i \in 1..Len(errors) |-> <<context \o " -> " \o errors[i][1], errors[i][2]>>]

\* wrapper(row) of handle_row_errors(on_error, column_name, fallback_value)(func).
\* on_error is "None" or the ledger whose log_error is bound.  The result is
\* the outcome of the call and the ledgers after it;
\* r is the outcome of func(row).
Wrapper(on_error, column_name, fallback_value, func, row, ledgers, globals, r) ==
    IF r.kind = "return" THEN [out |-> r, ledgers |-> ledgers]
    ELSE IF "ValidationError" \notin globals
    THEN [out |-> Raise(NameError("ValidationError")), ledgers |-> ledgers]
    ELSE IF r.exc.type = "ValidationError"
    THEN IF r.exc.errors # <<>> /\ "context" \notin globals
         THEN [out |-> Raise(NameError("context")), ledgers |-> ledgers]
         ELSE [out |-> Raise(ValidationError(error_with_context(r.exc.errors))),
               ledgers |-> ledgers]
    ELSE [out |-> Ret(fallback_value),
          ledgers |->
            IF on_error # "None" /\ "row_id" \in DOMAIN row
            THEN [ledgers EXCEPT ![on_error] =
                    log_error(@, row.row_id,
                              func \o " (column: " \o column_name \o ")", r.exc)]
            ELSE ledgers]

handle_row_errors(on_error, column_name, fallback_value, func, row, ledgers, globals) ==
    Wrapper(on_error, column_name, fallback_value, func, row, ledgers, globals,
            Call(func, row))

----------------------------------------------------------------------------
\* Dataset-level transformations.  A transformation takes the dataset d, the
\* ledgers and the number of identifiers minted so far, and gives
\* [out, ledgers, uuid]: its outcome, the ledgers and that number after it.

NaN == [ty |-> "NaN", val |-> 0]

\* df[col] = value, for one row
SetColumn(row, col, v) ==
    [k \in DOMAIN row \cup {col} |-> IF k = col THEN v ELSE row[k]]

\* df.apply(safe_calculate_growth, axis=1): the rows in order, until one call
\* raises; acc is [vals, ledgers]
RECURSIVE Apply(_, _, _, _, _)
ApplyNext(d, i, column_name, acc, globals, r) ==
    IF r.out.kind = "raise" THEN r
    ELSE Apply(d, i + 1, column_name,
               [vals |-> Append(acc.vals, r.out.val), ledgers |-> r.ledgers], globals)

Apply(d, i, column_name, acc, globals) ==
    IF i > Len(d) THEN [out |-> Ret(acc.vals), ledgers |-> acc.ledgers]
    ELSE ApplyNext(d, i, column_name, acc, globals,
                   handle_row_errors("G", column_name, PyNone, "safe_calculate_growth",
                                     d[i], acc.ledgers, globals))

\* calculate_growth_rate(df, column_name) of the example, before decoration
\* df[column_name] = a, where a is what df.apply gave
AssignColumn(d, column_name, a, uuid) ==
    IF a.out.kind = "raise"
    THEN [out |-> a.out, ledgers |-> a.ledgers, uuid |-> uuid]
    ELSE [out |-> Ret([i \in 1..Len(d) |-> SetColumn(d[i], column_name, a.out.val[i])]),
          ledgers |-> a.ledgers, uuid |-> uuid]

calculate_growth_rate(d, column_name, ledgers, uuid, globals) ==
    AssignColumn(d, column_name,
                 Apply(d, 1, column_name, [vals |-> <<>>, ledgers |-> ledgers], globals),
                 uuid)

\* the group keys of df.groupby(["id"]), in sorted order
RECURSIVE Sorted(_)
Sorted(S) ==
    IF S = {} THEN <<>>
    ELSE LET m == CHOOSE x \in S : \A y \in S : x <= y
         IN <<m>> \o Sorted(S \ {m})

SelectRows(d, Keep(_)) == SelectSeq(d, Keep)

RECURSIVE Sum(_)
Sum(s) == IF s = <<>> THEN 0 ELSE Head(s) + Sum(Tail(s))

\* aggregate_with_details that keeps the identifier of each group's first row
aggregate_with_details_first_id(d, ledgers, uuid) ==
    LET keys == Sorted({d[i].id : i \in 1..Len(d)})
        Group(k) == LET InGroup(row) == row.id = k IN SelectRows(d, InGroup)
    IN [out |-> Ret([j \in 1..Len(keys) |->
                       [id |-> keys[j],
                        end_value |-> PyInt(0),
                        row_id |-> Group(keys[j])[1].row_id,
                        source_row_ids |-> RowIds(Group(keys[j])),
                        contribution_counts |-> Len(Group(keys[j]))]]),
        ledgers |-> ledgers, uuid |-> uuid]

\* aggregate_with_details(df, ["id"], {"end_value": "sum"}), before decoration
aggregate_with_details(d, ledgers, uuid) ==
    IF ~HasColumn(d, "id")
    THEN [out |-> Raise(KeyError("id")), ledgers |-> ledgers, uuid |-> uuid]
    ELSE IF ~HasColumn(d, "end_value")
    THEN [out |-> Raise(KeyError("Column(s) ['end_value'] do not exist")),
          ledgers |-> ledgers, uuid |-> uuid]
    ELSE LET keys == Sorted({d[i].id : i \in 1..Len(d)})
             Group(k) == LET InGroup(row) == row.id = k IN SelectRows(d, InGroup)
             grouped ==
               [j \in 1..Len(keys) |->
                  LET g == Group(keys[j]) IN
                  [id |-> keys[j],
                   end_value |-> PyInt(Sum([i \in 1..Len(g) |-> g[i].end_value.val])),
                   row_id |-> uuid4(uuid + j),
                   source_row_ids |-> RowIds(g),
                   contribution_counts |-> Len(g)]]
         IN [out |-> Ret(grouped), ledgers |-> ledgers, uuid |-> uuid + Len(keys)]

\* the rows that df.explode(column) makes of one row
ExplodeRow(row, column) ==
    LET c == row[column] IN
    IF c.ty = "list"
    THEN IF c.val = <<>> THEN << [row EXCEPT ![column] = NaN] >>
         ELSE [k \in 1..Len(c.val) |-> [row EXCEPT ![column] = c.val[k]]]
    ELSE <<row>>

RECURSIVE Explode(_, _)
Explode(d, column) ==
    IF d = <<>> THEN <<>>
    ELSE ExplodeRow(Head(d), column) \o Explode(Tail(d), column)

\* explode_column(df, column), before decoration.  The exploded frame is
\* re-indexed 0..T-1 and parent_row_id reads df.loc[idx, "row_id"] of the
\* input frame, whose labels are 0..N-1: label N is a KeyError.
explode_column(d, column, ledgers, uuid) ==
    IF ~HasColumn(d, column)
    THEN [out |-> Raise(KeyError(column)), ledgers |-> ledgers, uuid |-> uuid]
    ELSE LET exploded_df == Explode(d, column) IN
         IF Len(exploded_df) > Len(d)
         THEN [out |-> Raise(Exc("KeyError", ToString(Len(d)))),
               ledgers |-> ledgers, uuid |-> uuid]
         ELSE [out |-> Ret([i \in 1..Len(exploded_df) |->
                              SetColumn(exploded_df[i], "parent_row_id", d[i].row_id)]),
               ledgers |-> ledgers, uuid |-> uuid]

AttributeError(attr) ==
    Exc("AttributeError", "'MetadataManager' object has no attribute '" \o attr \o "'")

\* filter_with_details(df, lambda df: df["end_value"] > threshold, name),
\* before decoration
filter_with_details(d, threshold, ledgers, uuid) ==
    IF ~HasColumn(d, "end_value")
    THEN [out |-> Raise(KeyError("end_value")), ledgers |-> ledgers, uuid |-> uuid]
    ELSE LET Keep(row) == row.end_value.val > threshold
             filtered_df == SelectRows(d, Keep)
             Removed(row) == row.row_id \notin Range(RowIds(filtered_df))
             removed_df == SelectRows(d, Removed)
         IN IF removed_df # <<>>
            THEN [out |-> Raise(AttributeError("log_removed_rows")),
                  ledgers |-> ledgers, uuid |-> uuid]
            ELSE [out |-> Ret(filtered_df), ledgers |-> ledgers, uuid |-> uuid]

\* manage_metadata without the Error Record of the except branch
manage_metadata_unlogged(mm, name, r, duration) ==
    IF r.out.kind = "raise" \/ ~HasColumn(r.out.val, "row_id")
    THEN [r EXCEPT !.out = IF r.out.kind = "raise" THEN @ ELSE Raise(KeyError("row_id"))]
    ELSE [r EXCEPT !.ledgers[mm] =
            log_transformation(update_lineage(@, r.out.val, name, <<>>),
                               name, duration, [row_count |-> Len(r.out.val)])]

\* manage_metadata with the Transformation Log record written in a finally
manage_metadata_finally(mm, name, r, duration) ==
    IF r.out.kind = "raise"
    THEN [r EXCEPT !.ledgers[mm] =
            log_transformation(log_error(@, "global", name, r.out.exc),
                               name, duration, [row_count |-> 0])]
    ELSE [r EXCEPT !.ledgers[mm] =
            log_transformation(update_lineage(@, r.out.val, name, <<>>),
                               name, duration, [row_count |-> Len(r.out.val)])]

\* manage_metadata that calls log_transformation without details
manage_metadata_no_details(mm, name, r, duration) ==
    IF r.out.kind = "raise"
    THEN [r EXCEPT !.ledgers[mm] = log_error(@, "global", name, r.out.exc)]
    ELSE IF ~HasColumn(r.out.val, "row_id")
    THEN [r EXCEPT !.out = Raise(KeyError("row_id")),
                   !.ledgers[mm] = log_error(@, "global", name, KeyError("row_id"))]
    ELSE [r EXCEPT !.ledgers[mm] =
            log_transformation(update_lineage(@, r.out.val, name, <<>>),
                               name, duration, <<>>)]

\* manage_metadata that also records the failed step in the lineage, under
\* "global"
manage_metadata_global_lineage(mm, name, r, duration) ==
    IF r.out.kind = "raise"
    THEN [r EXCEPT !.ledgers[mm] =
            update_lineage(log_error(@, "global", name, r.out.exc),
                           << [row_id |-> "global"] >>, name, <<>>)]
    ELSE IF ~HasColumn(r.out.val, "row_id")
    THEN [r EXCEPT !.out = Raise(KeyError("row_id")),
                   !.ledgers[mm] = log_error(@, "global", name, KeyError("row_id"))]
    ELSE [r EXCEPT !.ledgers[mm] =
            log_transformation(update_lineage(@, r.out.val, name, <<>>),
                               name, duration, [row_count |-> Len(r.out.val)])]

\* wrapper(df) of manage_metadata(mm)(func), given what func(df) did (r): mm
\* is the ledger the decorator was given, name is func.__name__, duration is
\* time.time() - start_time
manage_metadata(mm, name, r, duration) ==
    IF r.out.kind = "raise"
    THEN [r EXCEPT !.ledgers[mm] = log_error(@, "global", name, r.out.exc)]
    ELSE IF ~HasColumn(r.out.val, "row_id")
    THEN [r EXCEPT !.out = Raise(KeyError("row_id")),
                   !.ledgers[mm] = log_error(@, "global", name, KeyError("row_id"))]
    ELSE [r EXCEPT !.ledgers[mm] =
            log_transformation(update_lineage(@, r.out.val, name, <<>>),
                               name, duration, [row_count |-> Len(r.out.val)])]

\* the transformations a pipeline is built of: the decorated functions with
\* their configuration bound by partial
Transformations ==
    { [fn |-> "calculate_growth_rate", arg |-> 0],
      [fn |-> "filter_with_details", arg |-> 0],
      [fn |-> "filter_with_details", arg |-> 100],
      [fn |-> "aggregate_with_details", arg |-> 0],
      [fn |-> "explode_column", arg |-> 0] }

\* the ledger each decorator was given: the module-level metadata_manager
DecoratorLedger(fn) == "G"

\* func(df, *args, **kwargs): the function under the decorator
Undecorated(t, d, ledgers, uuid, globals) ==
    CASE t.fn = "calculate_growth_rate" ->
            calculate_growth_rate(d, "growth_rate", ledgers, uuid, globals)
      [] t.fn = "filter_with_details" ->
            filter_with_details(d, t.arg, ledgers, uuid)
      [] t.fn = "aggregate_with_details" ->
            aggregate_with_details(d, ledgers, uuid)
      [] t.fn = "explode_column" ->
            explode_column(d, "tags", ledgers, uuid)

\* transformation(df): the decorated function
Transform(t, d, ledgers, uuid, duration, globals) ==
    manage_metadata(DecoratorLedger(t.fn), t.fn,
                    Undecorated(t, d, ledgers, uuid, globals), duration)

\* add_row_id(df): a copy with a fresh row_id per row
add_row_id(d, uuid) == [i \in 1..Len(d) |-> SetColumn(d[i], "row_id", uuid4(uuid + i))]

\* add_row_id(df) without df = df.copy(): the column is set on the caller's
\* dataset
add_row_id_in_place(d, uuid) ==
    [arg |-> add_row_id(d, uuid), ret |-> add_row_id(d, uuid)]

\* a call add_row_id(df): ret is what it returns and arg is the caller's
\* dataset after it, which the call leaves alone, the column being set on
\* the copy of line 108
add_row_id_call(d, uuid) == [arg |-> d, ret |-> add_row_id(d, uuid)]

----------------------------------------------------------------------------
\* Inputs

PyList(items) == [ty |-> "list", val |-> items]

\* the rows a caller's dataset is made of
InputRows ==
    { [id |-> 1, start_value |-> PyInt(100), end_value |-> PyInt(110),
       tags |-> PyList(<< PyStr(<<"x">>) >>)],
      [id |-> 2, start_value |-> PyInt(0), end_value |-> PyInt(20),
       tags |-> PyList(<< PyStr(<<"x">>), PyStr(<<"y">>) >>)],
      [id |-> 1, start_value |-> PyInt(200), end_value |-> PyInt(240),
       tags |-> PyList(<< PyStr(<<"z">>) >>)] }

SeqsUpTo(S, n) == UNION {[1..k -> S] : k \in 1..n}

Datasets == SeqsUpTo(InputRows, MaxRows)

Pipelines == SeqsUpTo(Transformations, MaxSteps)

\* time.time() - start_time, in whole seconds
Durations == {0, 1}

\* the rows a wrapped row-level function is called with directly
GrowthRows ==
    { [row_id |-> "r1", start_value |-> PyInt(100), end_value |-> PyInt(110)],
      [row_id |-> "r2", start_value |-> PyInt(0), end_value |-> PyInt(20)],
      [start_value |-> PyInt(0), end_value |-> PyInt(20)] }

ValidatedRows ==
    { [row_id |-> "r3", age |-> PyInt(25), name |-> PyStr(<<"A", "n", "n">>),
       email |-> PyStr(<<"a", "@", "b">>)],
      [row_id |-> "r4", age |-> PyInt(25), email |-> PyStr(<<"a", "@", "b">>)],
      [age |-> PyInt(-5), name |-> PyStr(<<"J", "o">>),
       email |-> PyStr(<<"a", "@", "b">>)] }

\* the datasets and names update_lineage is called with directly
ApiDatasets == { << [row_id |-> "a"] >>, << [row_id |-> "a"], [row_id |-> "b"] >> }
ApiNames == {"t1", "t2"}
ApiNewRows == { <<>>, <<"a">>, <<"c">>, <<"a", "c">> }

\* the configurations and the data validator is called with directly: the
\* data of the tests of test_validation_function.py, strings shortened
ValidatorConfigs == {validation_config, bad_config}

\* a sequence, not a set: the values of a key are of several types
ValidatorData ==
    << [age |-> PyInt(25), name |-> PyStr(<<"A", "n", "n">>),
        email |-> PyStr(<<"a", "@", "b">>)],
       [age |-> PyInt(25), email |-> PyStr(<<"a", "@", "b">>)],
       [age |-> PyStr(<<"t", "w">>), name |-> PyStr(<<"A", "n", "n">>),
        email |-> PyStr(<<"a", "@", "b">>)],
       [age |-> PyInt(-5), name |-> PyStr(<<"J", "o">>),
        email |-> PyStr(<<"a", "@", "b">>)],
       [age |-> PyInt(30), name |-> PyStr(<<"J", "o", "e">>),
        email |-> PyStr(<<"a", "b">>)],
       [age |-> PyInt(25)] >>

\* the arguments of the direct calls of log_error, log_transformation and
\* get_lineage; "a" is a row of ApiDatasets, "zz" is in no dataset
ApiRowIds == {"a", "global", "zz"}
ApiErrors == { Exc("ValueError", "Start value cannot be zero") }
\* details: <<>> is the default None, which `details or {}` makes {}; a
\* sequence, not a set, of values of two kinds
ApiDetails == << <<>>, [row_count |-> 1] >>

----------------------------------------------------------------------------
\* The state machine.  pc is the state of the pipeline run: "NoPipeline"
\* before build_pipeline, then NotStarted -> Running -> Completed or Failed.
\* A run is synchronous: nothing else is called while it is Running.  A
\* behaviour is either one run of a pipeline on fresh ledgers, or up to
\* MaxCalls direct calls of the module's functions.

NoCall == [op |-> "none"]

Init ==
    /\ module_globals \in SUBSET {"ValidationError", "context"}
    /\ ledger = [m \in Ledgers |-> MetadataManager]
    /\ pc = "NoPipeline"
    /\ pipeline_specs = <<>>
    /\ metadata_manager = "G"
    /\ data = <<>>
    /\ df = <<>>
    /\ pos = 0
    /\ uuid_count = 0
    /\ invoked = <<>>
    /\ result = [kind |-> "none"]
    /\ last = NoCall
    /\ ncalls = 0

\* pipeline = build_pipeline(pipeline_specs, metadata_manager)
BuildPipeline ==
    /\ pc = "NoPipeline"
    /\ ncalls = 0
    /\ \E specs \in Pipelines, mm \in Ledgers :
         /\ pipeline_specs' = specs
         /\ metadata_manager' = mm
    /\ pc' = "NotStarted"
    /\ UNCHANGED <<module_globals, ledger, data, df, pos, uuid_count, invoked,
                   result, last, ncalls>>

\* pipeline(df), up to the loop: add_row_id and initialize
PipelineStart ==
    /\ pc = "NotStarted"
    /\ \E d \in Datasets :
         \E c \in {add_row_id_call(d, uuid_count)} :
            /\ data' = c.arg
            /\ df' = c.ret
            /\ uuid_count' = uuid_count + Len(d)
            /\ ledger' = [ledger EXCEPT ![metadata_manager] = initialize(@, c.ret)]
            /\ last' = [op |-> "initialize", mm |-> metadata_manager,
                        input |-> c.ret, pre |-> ledger, arg |-> d]
    /\ pc' = "Running"
    /\ pos' = 1
    /\ UNCHANGED <<module_globals, pipeline_specs, metadata_manager, invoked,
                   result, ncalls>>

\* one turn of the loop: df = transformation(df); an exception leaves pipeline
PipelineStep ==
    /\ pc = "Running"
    /\ pos <= Len(pipeline_specs)
    /\ \E duration \in Durations :
         \E r \in {Transform(pipeline_specs[pos], df, ledger, uuid_count, duration,
                             module_globals)} :
            /\ ledger' = r.ledgers
            /\ uuid_count' = r.uuid
            /\ last' = [op |-> "transformation", fn |-> pipeline_specs[pos].fn,
                        pos |-> pos, input |-> df,
                        inner |-> Undecorated(pipeline_specs[pos], df, ledger,
                                              uuid_count, module_globals).out,
                        out |-> r.out, pre |-> ledger]
            /\ invoked' = Append(invoked, pipeline_specs[pos].fn)
            /\ IF r.out.kind = "return"
               THEN /\ df' = r.out.val
                    /\ pos' = pos + 1
                    /\ pc' = "Running"
                    /\ UNCHANGED result
               ELSE /\ pc' = "Failed"
                    /\ result' = r.out
                    /\ UNCHANGED <<df, pos>>
    /\ UNCHANGED <<module_globals, pipeline_specs, metadata_manager, data, ncalls>>

\* pipeline(df) that returns the dataset the loop started from
PipelineReturn_first ==
    /\ pc = "Running"
    /\ pos > Len(pipeline_specs)
    /\ pc' = "Completed"
    /\ result' = Ret(add_row_id(data, 0))
    /\ UNCHANGED <<module_globals, ledger, pipeline_specs, metadata_manager,
                   data, df, pos, uuid_count, invoked, last, ncalls>>

\* return df
PipelineReturn ==
    /\ pc = "Running"
    /\ pos > Len(pipeline_specs)
    /\ pc' = "Completed"
    /\ result' = Ret(df)
    /\ UNCHANGED <<module_globals, ledger, pipeline_specs, metadata_manager,
                   data, df, pos, uuid_count, invoked, last, ncalls>>

\* a direct call of a function wrapped by
\* handle_row_errors(on_error, column_name="growth_rate", fallback_value=None)
RowCall ==
    /\ pc = "NoPipeline"
    /\ ncalls < MaxCalls
    /\ \E on_error \in {"None", "G"}, func \in RowFuncs :
         \E row \in IF func = "validate" THEN ValidatedRows ELSE GrowthRows :
           \E r \in {handle_row_errors(on_error, "growth_rate", PyNone, func, row,
                                       ledger, module_globals)} :
              /\ ledger' = r.ledgers
              /\ last' = [op |-> "handle_row_errors", func |-> func, row |-> row,
                          on_error |-> on_error, inner |-> Call(func, row),
                          out |-> r.out, pre |-> ledger]
    /\ ncalls' = ncalls + 1
    /\ UNCHANGED <<module_globals, pc, pipeline_specs, metadata_manager, data, df,
                   pos, uuid_count, invoked, result>>

\* a direct call metadata_manager.update_lineage(df, transformation, new_rows)
UpdateLineageCall ==
    /\ pc = "NoPipeline"
    /\ ncalls < MaxCalls
    /\ \E d \in ApiDatasets, transformation \in ApiNames, new_rows \in ApiNewRows :
         /\ ledger' = [ledger EXCEPT !["G"] =
                          update_lineage(@, d, transformation, new_rows)]
         /\ last' = [op |-> "update_lineage", input |-> d,
                     transformation |-> transformation, new_rows |-> new_rows,
                     pre |-> ledger]
    /\ ncalls' = ncalls + 1
    /\ UNCHANGED <<module_globals, pc, pipeline_specs, metadata_manager, data, df,
                   pos, uuid_count, invoked, result>>

\* a direct call metadata_manager.initialize(df)
InitializeCall ==
    /\ pc = "NoPipeline"
    /\ ncalls < MaxCalls
    /\ \E d \in ApiDatasets :
         /\ ledger' = [ledger EXCEPT !["G"] = initialize(@, d)]
         /\ last' = [op |-> "initialize", mm |-> "G", input |-> d, pre |-> ledger]
    /\ ncalls' = ncalls + 1
    /\ UNCHANGED <<module_globals, pc, pipeline_specs, metadata_manager, data, df,
                   pos, uuid_count, invoked, result>>

\* a direct call metadata_manager.log_error(row_id, transformation, error)
LogErrorCall ==
    /\ pc = "NoPipeline"
    /\ ncalls < MaxCalls
    /\ \E row_id \in ApiRowIds, error \in ApiErrors :
         /\ ledger' = [ledger EXCEPT !["G"] = log_error(@, row_id, "t1", error)]
         /\ last' = [op |-> "log_error", row_id |-> row_id, transformation |-> "t1",
                     error |-> error, pre |-> ledger]
    /\ ncalls' = ncalls + 1
    /\ UNCHANGED <<module_globals, pc, pipeline_specs, metadata_manager, data, df,
                   pos, uuid_count, invoked, result>>

\* a direct call metadata_manager.log_transformation(transformation,
\* start_time, details)
LogTransformationCall ==
    /\ pc = "NoPipeline"
    /\ ncalls < MaxCalls
    /\ \E duration \in Durations, k \in DOMAIN ApiDetails :
         /\ ledger' = [ledger EXCEPT !["G"] =
                          log_transformation(@, "t1", duration, ApiDetails[k])]
         /\ last' = [op |-> "log_transformation", transformation |-> "t1",
                     duration |-> duration, details |-> ApiDetails[k],
                     pre |-> ledger]
    /\ ncalls' = ncalls + 1
    /\ UNCHANGED <<module_globals, pc, pipeline_specs, metadata_manager, data, df,
                   pos, uuid_count, invoked, result>>

\* a direct call metadata_manager.get_lineage(row_id)
GetLineageCall ==
    /\ pc = "NoPipeline"
    /\ ncalls < MaxCalls
    /\ \E row_id \in ApiRowIds :
         \E c \in {get_lineage_call(ledger["G"], row_id)} :
            /\ ledger' = [ledger EXCEPT !["G"] = c.mm]
            /\ last' = [op |-> "get_lineage", row_id |-> row_id, out |-> c.ret,
                        pre |-> ledger, prev |-> last]
    /\ ncalls' = ncalls + 1
    /\ UNCHANGED <<module_globals, pc, pipeline_specs, metadata_manager, data, df,
                   pos, uuid_count, invoked, result>>

\* a direct call metadata_manager.get_errors()
GetErrorsCall ==
    /\ pc = "NoPipeline"
    /\ ncalls < MaxCalls
    /\ last' = [op |-> "get_errors", out |-> get_errors(ledger["G"]), pre |-> ledger]
    /\ ncalls' = ncalls + 1
    /\ UNCHANGED <<module_globals, ledger, pc, pipeline_specs, metadata_manager,
                   data, df, pos, uuid_count, invoked, result>>

\* a direct call metadata_manager.get_logs()
GetLogsCall ==
    /\ pc = "NoPipeline"
    /\ ncalls < MaxCalls
    /\ last' = [op |-> "get_logs", out |-> get_logs(ledger["G"]), pre |-> ledger]
    /\ ncalls' = ncalls + 1
    /\ UNCHANGED <<module_globals, ledger, pc, pipeline_specs, metadata_manager,
                   data, df, pos, uuid_count, invoked, result>>

\* a direct call validator(data, schema, rules)
ValidatorCall ==
    /\ pc = "NoPipeline"
    /\ ncalls < MaxCalls
    /\ \E config \in ValidatorConfigs, k \in DOMAIN ValidatorData :
         last' = [op |-> "validator", data |-> ValidatorData[k],
                  schema |-> config.schema, rules |-> config.rules,
                  out |-> validator(ValidatorData[k], config.schema, config.rules),
                  pre |-> ledger]
    /\ ncalls' = ncalls + 1
    /\ UNCHANGED <<module_globals, ledger, pc, pipeline_specs, metadata_manager,
                   data, df, pos, uuid_count, invoked, result>>

Next ==
    \/ BuildPipeline
    \/ PipelineStart
    \/ PipelineStep
    \/ PipelineReturn
    \/ RowCall
    \/ UpdateLineageCall
    \/ InitializeCall
    \/ LogErrorCall
    \/ LogTransformationCall
    \/ GetLineageCall
    \/ GetErrorsCall
    \/ GetLogsCall
    \/ ValidatorCall

Spec == Init /\ [][Next]_vars

----------------------------------------------------------------------------
\* pipeline(df) is one synchronous call: while it runs, the loop takes its
\* next turn or the function returns.  PipelineTurn is what such a step does
\* to pc and pos: a step of Next is a PipelineTurn step exactly when it is a
\* PipelineStep or a PipelineReturn, and PipelineTurn is enabled exactly when
\* one of the two is, which is when pc = "Running".
PipelineTurn ==
    /\ pc = "Running"
    /\ pc' \in {"Running", "Completed", "Failed"}
    /\ pos' \in {pos, pos + 1}

FairSpec == Spec /\ WF_<<pc, pos>>(PipelineTurn)

\* Properties

\* what the last call appended to the Error Ledger of the ledger m
NewErrors(m) ==
    SubSeq(ledger[m].errors, Len(last.pre[m].errors) + 1, Len(ledger[m].errors))

IsPrefix(s, t) == Len(s) <= Len(t) /\ SubSeq(t, 1, Len(s)) = s

\* the names of the Transformation Log of the ledger m, in order
LogNames(m) == [i \in 1..Len(ledger[m].logs) |-> ledger[m].logs[i].transformation]

StepFailed == last.op = "transformation" /\ last.inner.kind = "raise"

\* C1: when the function under manage_metadata raises, the wrapper appends
\* exactly one Error Record, with subject "global" and the function's name,
\* to its ledger, after which the same exception leaves the wrapper and the
\* pipeline callable: no dataset is returned.
C1_GlobalErrorThenReraise ==
    StepFailed =>
        LET m == DecoratorLedger(last.fn)
            new == NewErrors(m)
        IN /\ IsPrefix(last.pre[m].errors, ledger[m].errors)
           /\ Len(new) >= 1
           /\ new[Len(new)] = [row_id |-> "global", transformation |-> last.fn,
                               error |-> Str(last.inner.exc)]
           /\ Cardinality({i \in 1..Len(new) : new[i].row_id = "global"}) = 1
           /\ last.out = Raise(last.inner.exc)
           /\ result = Raise(last.inner.exc)
           /\ pc = "Failed"

C1_Witness ==
    /\ StepFailed
    /\ pc = "Failed"
    /\ Len(NewErrors(DecoratorLedger(last.fn))) = 1

\* C2: when the k-th transformation raises the run is Failed, the
\* transformations called are exactly the first k of the list, nothing more
\* of the run can be called, and the Transformation Log the steps write to
\* names the k-1 completed steps, once each and in order.
C2_FailStop ==
    pc = "Failed" =>
        /\ StepFailed
        /\ last.pos = pos
        /\ invoked = [i \in 1..pos |-> pipeline_specs[i].fn]
        /\ LogNames("G") = [i \in 1..(pos - 1) |-> pipeline_specs[i].fn]
        /\ ~ENABLED (PipelineStep \/ PipelineReturn \/ PipelineStart)

C2_Witness ==
    /\ pc = "Failed"
    /\ pos = 2
    /\ Len(ledger["G"].logs) = 1

\* the identifiers of a dataset
Ids(d) == Range(RowIds(d))

\* C3: calculate_growth_rate applies a function wrapped by handle_row_errors,
\* with on_error the ledger's log_error, to every row of a dataset whose rows
\* carry a row_id: the call returns, a row for which the function raised has
\* the fallback value and exactly one Error Record under its identifier, and
\* a row for which it returned has that result and no Error Record.
C3_RowFaultIsolation ==
    (last.op = "transformation" /\ last.fn = "calculate_growth_rate") =>
        /\ last.out.kind = "return"
        /\ Len(last.out.val) = Len(last.input)
        /\ \A i \in 1..Len(last.input) :
             LET row == last.input[i]
                 r == calculate_growth(row)
                 n == Cardinality({k \in 1..Len(NewErrors("G")) :
                                     NewErrors("G")[k].row_id = row.row_id})
             IN IF r.kind = "raise"
                THEN last.out.val[i].growth_rate = PyNone /\ n = 1
                ELSE last.out.val[i].growth_rate = r.val /\ n = 0

\* C4: a ValidationError raised under handle_row_errors leaves the wrapper as
\* a ValidationError whose keys carry the context; the fallback value is not
\* returned and no Error Record is written.
C4_ValidationErrorReraised ==
    (last.op = "handle_row_errors" /\ last.inner.kind = "raise"
       /\ last.inner.exc.type = "ValidationError") =>
        /\ last.out.kind = "raise"
        /\ last.out.exc.type = "ValidationError"
        /\ last.out.exc.errors = error_with_context(last.inner.exc.errors)
        /\ ledger = last.pre

\* C5: an exception other than ValidationError, raised under
\* handle_row_errors for a row without a row_id, leaves the wrapper: the
\* fallback value is not returned.
C5_NoRowIdPropagates ==
    (last.op = "handle_row_errors" /\ last.inner.kind = "raise"
       /\ last.inner.exc.type # "ValidationError"
       /\ "row_id" \notin DOMAIN last.row) =>
        last.out = Raise(last.inner.exc)

\* C6: a run of the pipeline built by build_pipeline(transformations, L)
\* writes to L only: every other ledger stays as constructed.
C6_WritesOnlyToL ==
    pc \in {"Running", "Completed", "Failed"} =>
        \A m \in Ledgers \ {metadata_manager} : ledger[m] = MetadataManager

\* the transformations that give one row per row
OneToOne == {"calculate_growth_rate", "filter_with_details", "explode_column"}

\* C7: a 1:1 step that completes, at any place of the pipeline, extends the
\* lineage of every identifier of its input by one entry, its name, at the
\* end, and its result holds no identifier that its input did not hold.
C7_OneToOneLineage ==
    (last.op = "transformation" /\ last.fn \in OneToOne /\ last.out.kind = "return") =>
        LET m == DecoratorLedger(last.fn) IN
        /\ \A id \in Ids(last.input) :
             get_lineage(ledger[m], id) = Append(get_lineage(last.pre[m], id), last.fn)
        /\ Ids(last.out.val) \subseteq Ids(last.input)
        /\ DOMAIN ledger[m].lineage = DOMAIN last.pre[m].lineage \cup Ids(last.input)

C7_Witness ==
    /\ last.op = "transformation"
    /\ last.fn \in OneToOne
    /\ last.out.kind = "return"
    /\ last.pos = 2
    /\ \E id \in Ids(last.input) : Len(get_lineage(ledger["G"], id)) = 2

\* C8: each row an aggregation gives carries an identifier that no row and
\* no ledger held before, the identifiers of the result are distinct, the
\* lineage of each is exactly the aggregation's name, whatever the lineage of
\* the rows of its group, and source_row_ids lists the identifiers of the
\* input rows of that group and of no other row.
C8_AggregationLineage ==
    (last.op = "transformation" /\ last.fn = "aggregate_with_details"
       /\ last.out.kind = "return") =>
        LET m == DecoratorLedger(last.fn)
            res == last.out.val
        IN /\ \A j \in 1..Len(res) :
                /\ res[j].row_id \notin Ids(last.input)
                /\ \A l \in Ledgers : res[j].row_id \notin DOMAIN last.pre[l].lineage
                /\ get_lineage(ledger[m], res[j].row_id) = <<"aggregate_with_details">>
                /\ \A i \in 1..Len(last.input) :
                     (last.input[i].row_id \in Range(res[j].source_row_ids))
                        <=> (last.input[i].id = res[j].id)
                /\ Len(res[j].source_row_ids) = res[j].contribution_counts
                /\ Range(res[j].source_row_ids) \subseteq Ids(last.input)
           /\ Cardinality(Ids(res)) = Len(res)
           /\ Len(res) <= Len(last.input)

\* two rows of one group, each with a lineage of its own, collapse into one
C8_Witness ==
    /\ last.op = "transformation"
    /\ last.fn = "aggregate_with_details"
    /\ last.out.kind = "return"
    /\ Len(last.out.val) < Len(last.input)
    /\ \A id \in Ids(last.input) : Len(get_lineage(ledger["G"], id)) >= 1

\* the rows of d that come before the rows exploded from d[i]
RECURSIVE Offset(_, _)
Offset(d, i) == IF i = 1 THEN 0 ELSE Offset(d, i - 1) + Len(ExplodeRow(d[i - 1], "tags"))

\* C9: an explode step gives, for an input row split into K rows, K rows with
\* pairwise distinct new identifiers, each with the lineage of the explode
\* step alone, and each with the input row's identifier as parent_row_id.
C9_ExplodeLineage ==
    (last.op = "transformation" /\ last.fn = "explode_column"
       /\ HasColumn(last.input, "tags")) =>
        LET res == last.out.val IN
        /\ last.out.kind = "return"
        /\ Len(res) = Len(Explode(last.input, "tags"))
        /\ Cardinality(Ids(res)) = Len(res)
        /\ \A j \in 1..Len(res) :
             /\ res[j].row_id \notin Ids(last.input)
             /\ get_lineage(ledger["G"], res[j].row_id) = <<"explode_column">>
        /\ \A i \in 1..Len(last.input) :
             \A k \in 1..Len(ExplodeRow(last.input[i], "tags")) :
                res[Offset(last.input, i) + k].parent_row_id = last.input[i].row_id

\* C10: update_lineage(dataset, t, new_identifiers), for a dataset of
\* distinct identifiers: t is appended once to the sequence of every
\* identifier of the dataset that is not new (an absent sequence counts as
\* empty), the sequence of every new identifier is [t], every other entry
\* is as it was and none is removed.
C10_UpdateLineage ==
    last.op = "update_lineage" =>
        LET old == last.pre["G"].lineage
            new == ledger["G"].lineage
            ids == Ids(last.input)
            fresh == Range(last.new_rows)
        IN /\ DOMAIN new = DOMAIN old \cup ids \cup fresh
           /\ \A id \in ids \ fresh :
                new[id] = Append(Entry(old, id), last.transformation)
           /\ \A id \in fresh : new[id] = <<last.transformation>>
           /\ \A id \in DOMAIN old \ (ids \cup fresh) : new[id] = old[id]
           /\ ledger["G"].errors = last.pre["G"].errors
           /\ ledger["G"].logs = last.pre["G"].logs

C10_Witness ==
    /\ last.op = "update_lineage"
    /\ last.new_rows # <<>>
    /\ \E id \in Ids(last.input) \ Range(last.new_rows) :
         Len(ledger["G"].lineage[id]) = 2
    /\ \E id \in Ids(last.input) \cap Range(last.new_rows) :
         Len(Entry(last.pre["G"].lineage, id)) >= 1
    /\ DOMAIN last.pre["G"].lineage \ (Ids(last.input) \cup Range(last.new_rows)) # {}

\* the invocations of the run so far that returned
Successful == Len(invoked) - (IF pc = "Failed" THEN 1 ELSE 0)

\* C11: an invocation of a transformation under manage_metadata that returns
\* appends one record to the Transformation Log of the decorator's ledger,
\* with the function's name and the row count of the dataset returned; one
\* that raises appends none; the length of the log is the number of
\* invocations that returned.
C11_OneLogPerSuccess ==
    /\ last.op = "transformation" =>
         LET m == DecoratorLedger(last.fn)
             logs == ledger[m].logs
             before == last.pre[m].logs
         IN IF last.out.kind = "return"
            THEN /\ Len(logs) = Len(before) + 1
                 /\ SubSeq(logs, 1, Len(before)) = before
                 /\ logs[Len(logs)].transformation = last.fn
                 /\ logs[Len(logs)].details = [row_count |-> Len(last.out.val)]
                 /\ logs[Len(logs)].time \in Durations
            ELSE logs = before
    /\ pc \in {"Running", "Completed", "Failed"} =>
         Len(ledger["G"].logs) = Successful

\* a step that returns fewer rows than it was given, after a step that returned
C11_Witness ==
    /\ last.op = "transformation"
    /\ last.out.kind = "return"
    /\ Len(last.out.val) < Len(last.input)
    /\ Len(ledger["G"].logs) = 2
    /\ Successful = 2

\* C12: the Error Ledger and the Transformation Log of every ledger only
\* grow at the end: whatever is called, a ledger operation or a step of a
\* run, the records held before the call are a prefix of those held after.
C12_AppendOnly ==
    [][\A m \in Ledgers :
          /\ IsPrefix(ledger[m].errors, ledger'[m].errors)
          /\ IsPrefix(ledger[m].logs, ledger'[m].logs)]_vars

\* both sequences hold records when a step of a run appends another
C12_Witness ==
    /\ last.op = "transformation"
    /\ Len(last.pre["G"].errors) >= 1
    /\ Len(last.pre["G"].logs) >= 1
    /\ Len(ledger["G"].errors) > Len(last.pre["G"].errors)

\* the names of the transformations of the pipeline, in the order given
SpecNames == [i \in 1..Len(pipeline_specs) |-> pipeline_specs[i].fn]

Started == pc \in {"Running", "Completed", "Failed"}

\* before the first transformation: identifiers assigned, ledger initialized
C13_Prepared ==
    (Started /\ invoked = <<>>) =>
        /\ last.op = "initialize"
        /\ last.mm = metadata_manager
        /\ last.input = add_row_id(data, 0)
        /\ df = add_row_id(data, 0)
        /\ uuid_count = Len(data)
        /\ \A id \in Ids(df) : id \in DOMAIN ledger[metadata_manager].lineage

\* the transformations called are the first of the list, in the order given
C13_InOrder ==
    Started =>
        /\ IsPrefix(invoked, SpecNames)
        /\ ~ENABLED PipelineStart
        /\ invoked # <<>> =>
             /\ last.op = "transformation"
             /\ last.pos = Len(invoked)
             /\ last.fn = SpecNames[last.pos]

C13_Returned ==
    pc = "Completed" =>
        /\ invoked = SpecNames
        /\ last.out.kind = "return"
        /\ result = Ret(last.out.val)
        /\ LogNames("G") = SpecNames

\* each transformation is given the dataset its predecessor returned
C13_Threaded ==
    (last' # last /\ last'.op = "transformation") =>
        last'.input = (IF last.op = "transformation" THEN last.out.val ELSE last.input)

\* C13: the callable that build_pipeline returns assigns the identifiers
\* once and initializes the ledger before the first transformation, calls
\* the transformations in the order of the list, each on the dataset its
\* predecessor returned, and ends: Failed when a transformation raised, and
\* otherwise Completed, returning the dataset of the last transformation,
\* with the Transformation Log naming the steps in the order of the list.
C13_PipelineOrder ==
    /\ [](C13_Prepared /\ C13_InOrder /\ C13_Returned)
    /\ [][C13_Threaded]_vars
    /\ (pc = "Running") ~> (pc = "Completed" \/ (pc = "Failed" /\ StepFailed))

\* a completed run of two different transformations, the second of which
\* returned another dataset than it was given
C13_Witness ==
    /\ pc = "Completed"
    /\ Len(pipeline_specs) = 2
    /\ pipeline_specs[1].fn # pipeline_specs[2].fn
    /\ last.out.val # last.input
    /\ last.input # add_row_id(data, 0)

\* C14: add_row_id returns as many rows as it is given, in the same order,
\* each with the columns and values of the input row and a row_id besides;
\* the row_id values are pairwise distinct; the caller's dataset is after
\* the call what it was before, without a row_id column.
C14_AddRowId ==
    (Started /\ invoked = <<>>) =>
        /\ Len(df) = Len(last.arg)
        /\ \A i \in 1..Len(df) :
             /\ DOMAIN df[i] = DOMAIN last.arg[i] \cup {"row_id"}
             /\ \A col \in DOMAIN last.arg[i] : df[i][col] = last.arg[i][col]
        /\ \A i, j \in 1..Len(df) : i # j => df[i].row_id # df[j].row_id
        /\ data = last.arg
        /\ \A i \in 1..Len(data) : "row_id" \notin DOMAIN data[i]

\* two equal rows are told apart by their identifiers
C14_Witness ==
    /\ Started
    /\ invoked = <<>>
    /\ Len(data) = 2
    /\ data[1] = data[2]
    /\ df[1].row_id # df[2].row_id

\* C15: get_lineage(row_id) returns the empty sequence for an identifier the
\* ledger does not know, and for an identifier of the dataset when it is
\* called right after initialize(dataset); it returns the sequence of a
\* known identifier; and it leaves lineage, errors and logs as they were,
\* making no entry for the identifier asked for.
C15_GetLineage ==
    /\ last.op = "get_lineage" =>
          LET lineage == last.pre["G"].lineage IN
          /\ last.row_id \notin DOMAIN lineage => last.out = <<>>
          /\ (last.prev.op = "initialize" /\ last.row_id \in Ids(last.prev.input))
                => last.out = <<>>
          /\ last.row_id \in DOMAIN lineage => last.out = lineage[last.row_id]
          /\ ledger = last.pre
          /\ DOMAIN ledger["G"].lineage = DOMAIN lineage
    /\ last.op = "initialize" =>
          \A id \in Ids(last.input) :
             get_lineage_call(ledger[last.mm], id) = [mm |-> ledger[last.mm], ret |-> <<>>]

\* the lineage of a row of the dataset, asked for right after initialize
C15_Witness ==
    /\ last.op = "get_lineage"
    /\ last.prev.op = "initialize"
    /\ last.row_id \in Ids(last.prev.input)
    /\ last.row_id \in DOMAIN ledger["G"].lineage
    /\ last.out = <<>>

\* the checks of a call validator(data, schema, rules) that fail
TypeFails(pydata, s) == s.key \notin DOMAIN pydata \/ pydata[s.key].ty # s.type
RuleFails(pydata, rule) == Eval(rule.condition, pydata) # Ret(TRUE)

\* errors[key] of the errors of a ValidationError
Message(errors, key) == (CHOOSE i \in 1..Len(errors) : errors[i][1] = key)

\* C16: validator returns None exactly when no schema key is missing or of
\* another type and every rule is true.  Otherwise it raises ValidationError
\* and the errors hold exactly one entry for each check that fails: the key
\* and "Missing key" or "Expected .., got .." for a schema key, the rule's
\* description and "Validation failed" for a rule that is false, and the
\* rule's description and "Rule evaluation error" with the exception's text
\* for a rule whose evaluation raises.  The configurations are those whose
\* descriptions differ from each other and from the schema keys.
C16_Validator ==
    last.op = "validator" =>
        LET pydata == last.data
            schema == last.schema
            rules == last.rules
            bad_keys == {i \in 1..Len(schema) : TypeFails(pydata, schema[i])}
            bad_rules == {i \in 1..Len(rules) : RuleFails(pydata, rules[i])}
        IN /\ (last.out = Ret(PyNone)) <=> (bad_keys = {} /\ bad_rules = {})
           /\ last.out.kind = "raise" \/ last.out = Ret(PyNone)
           /\ last.out.kind = "raise" =>
                LET errors == last.out.exc.errors
                    At(key) == errors[Message(errors, key)][2]
                IN /\ last.out.exc.type = "ValidationError"
                   /\ Len(errors) = Cardinality(bad_keys) + Cardinality(bad_rules)
                   /\ {errors[i][1] : i \in 1..Len(errors)}
                        = {schema[i].key : i \in bad_keys}
                          \cup {rules[i].description : i \in bad_rules}
                   /\ \A i \in bad_keys :
                        At(schema[i].key) =
                          IF schema[i].key \notin DOMAIN pydata
                          THEN "Missing key: " \o schema[i].key
                          ELSE "Expected " \o schema[i].type \o ", got "
                                 \o pydata[schema[i].key].ty
                   /\ \A i \in bad_rules :
                        LET r == Eval(rules[i].condition, pydata) IN
                        At(rules[i].description) =
                          IF r.kind = "raise"
                          THEN "Rule evaluation error: " \o r.exc.msg
                          ELSE "Validation failed: " \o rules[i].condition.expr
           /\ ledger = last.pre

\* a missing key and a rule that raises on it, both in the errors
C16_Witness ==
    /\ last.op = "validator"
    /\ last.out.kind = "raise"
    /\ \E i \in 1..Len(last.schema) : last.schema[i].key \notin DOMAIN last.data
    /\ \E i \in 1..Len(last.rules) : Eval(last.rules[i].condition, last.data).kind = "raise"
    /\ Len(last.out.exc.errors) >= 3

\* C17: after the start of a run, before the first step and after every step
\* that completed, every identifier of the working dataset has an entry in
\* the Lineage Ledger of the run, the ledger given to build_pipeline, and the
\* entry is empty only while no transformation has processed the row.
C17_EveryIdHasEntry ==
    pc \in {"Running", "Completed"} =>
        \A id \in Ids(df) :
           /\ id \in DOMAIN ledger[metadata_manager].lineage
           /\ get_lineage(ledger[metadata_manager], id) = <<>> => invoked = <<>>

\* C18: after initialize(dataset) every identifier of the dataset has the
\* empty sequence, whatever sequence it had before, so a lineage recorded for
\* a row of the dataset is discarded; the entries of other identifiers, the
\* errors and the logs are as they were; and a second initialize(dataset)
\* right after gives the same ledger.
C18_InitializeResets ==
    last.op = "initialize" =>
        LET m == last.mm
            old == last.pre[m].lineage
            new == ledger[m].lineage
        IN /\ \A id \in Ids(last.input) : id \in DOMAIN new /\ new[id] = <<>>
           /\ DOMAIN new = DOMAIN old \cup Ids(last.input)
           /\ \A id \in DOMAIN old \ Ids(last.input) : new[id] = old[id]
           /\ ledger[m].errors = last.pre[m].errors
           /\ ledger[m].logs = last.pre[m].logs
           /\ initialize(ledger[m], last.input) = ledger[m]
           /\ \A l \in Ledgers \ {m} : ledger[l] = last.pre[l]

\* one row of the dataset had a lineage, another identifier keeps its own
C18_Witness ==
    /\ last.op = "initialize"
    /\ \E id \in Ids(last.input) : Len(Entry(last.pre[last.mm].lineage, id)) >= 1
    /\ \E id \in DOMAIN ledger[last.mm].lineage \ Ids(last.input) :
         Len(ledger[last.mm].lineage[id]) >= 1

\* C19: a filter_with_details step completes whether or not its condition
\* removes rows: it returns the rows of its input for which the condition
\* holds, in their order, appends one Transformation Log record and no Error
\* Record, appends its name to the lineage of the rows it keeps and leaves
\* the lineage of the rows it removes as it was.
C19_FilterCompletes ==
    (last.op = "transformation" /\ last.fn = "filter_with_details") =>
        LET m == DecoratorLedger(last.fn)
            Keep(row) == row.end_value.val > pipeline_specs[last.pos].arg
            kept == SelectRows(last.input, Keep)
        IN /\ last.out = Ret(kept)
           /\ Len(ledger[m].logs) = Len(last.pre[m].logs) + 1
           /\ ledger[m].errors = last.pre[m].errors
           /\ \A id \in Ids(kept) :
                get_lineage(ledger[m], id)
                   = Append(get_lineage(last.pre[m], id), last.fn)
           /\ \A id \in Ids(last.input) \ Ids(kept) :
                get_lineage(ledger[m], id) = get_lineage(last.pre[m], id)

\* C20: a step whose function raises under manage_metadata leaves the
\* lineage and the Transformation Log of every ledger as they were, no
\* identifier gaining the step's name and no entry being made, and adds one
\* Error Record, to the decorator's ledger, and nothing else.
C20_FailedStepFrame ==
    StepFailed =>
        LET m == DecoratorLedger(last.fn) IN
        /\ \A l \in Ledgers :
             /\ ledger[l].lineage = last.pre[l].lineage
             /\ ledger[l].logs = last.pre[l].logs
        /\ Len(ledger[m].errors) = Len(last.pre[m].errors) + 1
        /\ SubSeq(ledger[m].errors, 1, Len(last.pre[m].errors)) = last.pre[m].errors
        /\ \A l \in Ledgers \ {m} : ledger[l].errors = last.pre[l].errors

\* the step failed on rows that have a lineage, after a step that was logged
C20_Witness ==
    /\ StepFailed
    /\ \E id \in Ids(last.input) : Len(get_lineage(ledger["G"], id)) >= 1
    /\ Len(ledger["G"].logs) >= 1
    /\ Len(ledger["G"].errors) >= 1

====
